---- MODULE Spec2Model ----
(***************************************************************************)
(* Persistence / hydration subsystem of igris: one state container         *)
(* (IgrisMaster) with its PersistHandler, the JSON storage adapter and a   *)
(* key/value backend holding one record under the handler's key.           *)
(*                                                                         *)
(* Time is discrete.  A pending setTimeout is kept as the number of ticks  *)
(* left; a timer that is due fires before the clock advances again (the    *)
(* event loop is otherwise idle), but any other event of the same instant  *)
(* may still run before it.                                                *)
(***************************************************************************)
EXTENDS Integers, Sequences, FiniteSets, TLC

\* ------------------------------------------------------------------ bounds
NStores == 2         \* containers given to a coordinator or a gate
MaxCalls == 1        \* coordinator invocations made by the application
MaxSubscribes == 2   \* times React calls the gate's subscribe
MaxStack == 3         \* frames of hydrate() the call stack holds before it overflows
MaxReads == 3         \* backend reads made by a handler whose reads throw
MaxVal == 2          \* property "a" holds a number in 1..MaxVal
MaxVersion == 1      \* record / config versions are 1..MaxVersion or undefined
Debounce == 2        \* config.debounceTime, in ticks

\* ---------------------------------------------------------- JS value domain
Keys == {"a", "b"}

\* a property slot: not present, present with value undefined, or a number
Absent == [t |-> "absent", n |-> 0]
Undef == [t |-> "undef", n |-> 0]
Num(n) == [t |-> "num", n |-> n]
FieldVals == {Absent, Undef} \cup {Num(n) : n \in 1..MaxVal}
Versions == {Undef} \cup {Num(n) : n \in 1..MaxVersion}

NoProps == [key \in Keys |-> Absent]
Obj(o) == [k |-> "obj", o |-> o]
Null == [k |-> "null", o |-> NoProps]
Undefined == [k |-> "undef", o |-> NoProps]
Missing == [k |-> "absent", o |-> NoProps]   \* a key the JSON text does not hold

\* the states the application puts into the container: "a" is a number, the
\* optional "b" is undefined or 1
Inputs ==
  {Obj([a |-> Num(n), b |-> y]) : n \in 1..MaxVal, y \in {Undef, Num(1)}}

\* ------------------------------------------------------- utils/functions.ts
isObject(item) == item.k = "obj"

\* {...x}: the own properties of x; none for null, undefined
Spread(x) == IF x.k = "obj" THEN x.o ELSE NoProps

\* { ...prev, ...cur } on property maps: a present key of cur overrides
Assign(prev, cur) ==
  [key \in Keys |-> IF cur[key] # Absent THEN cur[key] ELSE prev[key]]

shallowMerge(x, y) == Obj(Assign(Assign(NoProps, Spread(x)), Spread(y)))

\* the merge IgrisState installs when the config has none
stateMerge(currentState, storeState) ==
  IF isObject(storeState) /\ isObject(currentState)
  THEN shallowMerge(currentState, storeState)
  ELSE storeState

\* JSON.stringify of a value inside the record: undefined-valued properties
\* are dropped, an undefined value drops its key
JSONValue(v) ==
  CASE v.k = "obj" ->
         Obj([key \in Keys |-> IF v.o[key] = Undef THEN Absent ELSE v.o[key]])
    [] v.k = "undef" -> Missing
    [] OTHER -> v

NoRaw == [t |-> "none", value |-> Missing, version |-> Absent]    \* getItem -> null
BadRaw == [t |-> "bad", value |-> Missing, version |-> Absent]    \* not valid JSON

JSONstringifyIdentity(rec) ==
  [t |-> "json", value |-> rec.value, version |-> rec.version]
JSONstringify(rec) ==
  [t |-> "json",
   value |-> JSONValue(rec.value),
   version |-> IF rec.version = Undef THEN Absent ELSE rec.version]

\* parseJSON of createJSONStorage: null for null and for text that does not parse
NullData == [null |-> TRUE, value |-> Missing, version |-> Absent]

\* JSON.parse(str): throws on text that is not JSON
JSONparse(str) ==
  IF str.t = "json"
  THEN [threw |-> FALSE,
        data |-> [null |-> FALSE, value |-> str.value, version |-> str.version]]
  ELSE [threw |-> TRUE, data |-> NullData]

\* if (str === null) return null; try { return JSON.parse(str) } catch { return null }
parseJSONResultNoCatch(str) ==
  IF str.t = "none" THEN [threw |-> FALSE, data |-> NullData] ELSE JSONparse(str)
parseJSONResult(str) ==
  IF str.t = "none" \/ JSONparse(str).threw
  THEN [threw |-> FALSE, data |-> NullData]
  ELSE JSONparse(str)

parseJSON(str) == parseJSONResult(str).data

\* ------------------------------------------------------------ configuration
\* partial: the default identity, or a projection that drops key "b"
partialFn(c, data) ==
  IF c.partial = "dropB" /\ data.k = "obj"
  THEN Obj([data.o EXCEPT !["b"] = Absent])
  ELSE data

\* migrate: an example migration; renames "a" to "b" for unversioned records
\* and stamps the old version into "b" otherwise
migrateFn(value, version) ==
  IF value.k = "obj"
  THEN Obj([a |-> Absent,
            b |-> IF version = Undef THEN value.o["a"] ELSE version])
  ELSE value

mergeFunction(c, currentState, processedData) ==
  IF c.merge = "state"
  THEN stateMerge(currentState, processedData)
  ELSE shallowMerge(currentState, processedData)

InitialState == Obj([a |-> Num(1), b |-> Num(1)])

Configs ==
  [version : {Undef, Num(MaxVersion)},    \* the application's current version
   migrate : BOOLEAN,
   merge : {"default"},
   partial : {"identity", "dropB"},
   skipHydrate : BOOLEAN,
   async : BOOLEAN,
   debounceTime : {Debounce},
   setup : {"ok"}]

\* what can be wrong with the way the container was set up: persistence
\* configured without a name, a storage provider that throws when resolved,
\* a synchronous backend whose getItem throws
Setups == {"noName", "providerThrows", "getItemThrows"}
DegradedConfigs ==
  {c \in [version : {Num(MaxVersion)}, migrate : {FALSE}, merge : {"default"},
          partial : {"identity", "dropB"}, skipHydrate : BOOLEAN,
          async : BOOLEAN, debounceTime : {Debounce}, setup : Setups] :
     c.setup = "getItemThrows" => ~c.async}

\* if (config?.persist) { if (config.name) this.persist = ... else LOG.error }
hasPersistAlways(c) == TRUE
hasPersist(c) == c.setup # "noName"

\* what an earlier run of the application may have left under the key: nothing,
\* text that does not parse, or a record of any version whose "a" differs
\* from the initial state's
InitialRaws ==
  {NoRaw, BadRaw} \cup
  {JSONstringify([value |-> v, version |-> ver]) :
     v \in {i \in Inputs : i.o["a"] = Num(MaxVal)}, ver \in Versions}

\* -------------------------------------------------------------------- state
VARIABLES
  config,            \* PersistHandler.config, fixed at construction
  currentState,      \* IgrisMaster.currentState
  fetchCurrentState, \* "initializeValue" until the first fetch, then "plain"
  listeners,         \* IgrisMaster.listeners: the ids of the subscribed closures
  nextListener,      \* id of the next closure subscribeStore creates
  unsubscribeStore,  \* the listener the handler's unsubscribe removes; 0: the no-op
  hydrateImpl,       \* what this.hydrate is: "original", "undefined", "promise"
  hydratePromise,    \* "none", "pending", "fulfilled", "rejected"
  storage,           \* "sentinel" (UninitializedStorage) or "json" (the adapter)
  timeoutId,         \* the pending debounced write
  backend,           \* the raw string the backend holds under the key
  inflight,          \* the backend's asynchronous getItem not yet settled
  obs,               \* observations of calls made, for stating the properties
  stores,            \* the containers a coordinator or a gate is given
  joins,             \* the coordinator invocations made so far, in order
  gate,              \* one mounted Hydrator component
  adapter,           \* one JSON storage adapter called directly
  mergeCall,         \* one call of deepMerge: its arguments before and after
  frames             \* the first get() in progress, step by step, with a
                     \* listener of the application subscribed before it

vars == <<config, currentState, fetchCurrentState, listeners, nextListener,
          unsubscribeStore, hydrateImpl, hydratePromise, storage, timeoutId,
          backend, inflight, obs, stores, joins, gate, adapter,
          mergeCall, frames>>

\* the part of the state that belongs to the coordinator and the gate
gateVars == <<stores, joins, gate>>

\* ---------------------------------------- coordinator and gate: the state
Stores == 1..NStores

\* config.storage of a handler and the fallback of a coordinator: "unset" is
\* undefined; the others name a provider, synchronous or asynchronous. A
\* handler whose storage is unset falls back on localStorage, synchronous.
OwnStorages == {"unset", "ownSync", "ownAsync"}
Fallbacks == {"unset", "fbSync", "fbAsync"}
isAsyncStorage(st) == st \in {"ownAsync", "fbAsync"}

\* one container of the list: whether it has a handler (store.persist), the
\* storage it was configured with, config.storage now, what its hydrate is
\* and the state of the promise hydrate returned; uses is the provider over
\* which initializeStorage built this.storage ("none": still the sentinel);
\* read is the state of the backend's getItem promise
NoHandler ==
  [persist |-> FALSE, own |-> "unset", storage |-> "unset",
   hydrateImpl |-> "original", promise |-> "none", uses |-> "none",
   read |-> "none"]
StoreConfigs ==
  {NoHandler} \cup
  {[NoHandler EXCEPT !.persist = TRUE, !.own = o, !.storage = o] :
     o \in OwnStorages}

\* the props of the gate: a custom handler (returning undefined or a promise)
\* or, with no handler, the store list and an optional fallback storage
GateProps ==
  {[handler |-> h, fallback |-> "unset"] : h \in {"undefined", "promise"}} \cup
  {[handler |-> "none", fallback |-> f] : f \in Fallbacks}

\* the gate before its first getSnapshot
NoGate(props) ==
  [props |-> props,
   promiseRef |-> "undefined",  \* "undefined", "null" or "promise"
   join |-> 0,                  \* the coordinator invocation the gate made
   custom |-> "none",           \* the state of the custom handler's promise
   isHydrated |-> FALSE,        \* hydrationStateRef.current.isHydrated
   subscribes |-> 0,            \* calls of subscribe
   thens |-> 0,                 \* then-callbacks attached and not yet run
   rendered |-> "none",         \* what the last render returned
   attempts |-> 0,              \* hydration attempts issued
   lastFallback |-> "unset",    \* config.storage given to the coordinator
                                \* invoked in the last action
   storeChanged |-> FALSE]      \* some store has changed since the last render

\* no store list and no gate, while one handler runs
GateIdle ==
  /\ stores = [s \in Stores |-> NoHandler]
  /\ joins = <<>>
  /\ gate = NoGate([handler |-> "undefined", fallback |-> "unset"])

\* the result of no getItem call and of no setItem call
NoGet == [made |-> FALSE, kind |-> "none", st |-> "none", data |-> NullData,
          raw |-> NoRaw, ok |-> TRUE]
NoSet == [made |-> FALSE, fault |-> "none", promise |-> "none",
          called |-> FALSE, before |-> NoRaw]

\* an adapter over a backend holding raw under the key, not called yet
NoRemove == [made |-> FALSE, kind |-> "none", st |-> "none"]
NoAdapter(raw, async) ==
  [backend |-> raw, async |-> async, get |-> NoGet, set |-> NoSet,
   remove |-> NoRemove]

\* no adapter called directly, while the handler or the gate runs
AdapterIdle == adapter = NoAdapter(NoRaw, FALSE)

\* ------------------------------------------------- deepMerge: the values
\* an argument of deepMerge is an object over Keys; a property is absent,
\* a number, or a nested object over InnerKeys whose properties are absent
\* (0) or the number 1
InnerKeys == {"c", "d"}
NoInner == [key \in InnerKeys |-> 0]
MAbsent == [t |-> "absent", n |-> 0, o |-> NoInner]
MNum(n) == [t |-> "num", n |-> n, o |-> NoInner]
MObj(o) == [t |-> "obj", n |-> 0, o |-> o]
MergeFields ==
  {MAbsent} \cup {MNum(n) : n \in 1..MaxVal}
            \cup {MObj(o) : o \in [InnerKeys -> 0..1]}
MergeObjects == [Keys -> MergeFields]
EmptyObject == [key \in Keys |-> MAbsent]
\* the sources of one call: none, one or two
MergeSources ==
  {<<>>} \cup {<<s1>> : s1 \in MergeObjects}
         \cup {<<s1, s2>> : s1 \in MergeObjects, s2 \in {EmptyObject} \cup
                               {s \in MergeObjects : s["b"] = MAbsent}}

NoMerge(target, sources) ==
  [made |-> FALSE,
   target |-> target, sources |-> sources,   \* the arguments as the caller built them
   result |-> EmptyObject,                   \* the object returned
   sameObject |-> FALSE,    \* the object returned is the target argument
   targetAfter |-> target, sourcesAfter |-> sources]  \* what they hold now
MergeIdle == mergeCall = NoMerge(EmptyObject, <<>>)

\* ------------------------------------------- the first get(), step by step
\* what the application's listener does when it is notified: nothing with
\* the container, store.get(), store.set(prev => ...), or store.get() the
\* first time it is called and nothing after
ListenerKinds == {"passive", "get", "setFn", "getOnce"}
\* depth counts the hydrate() calls on the stack; pc is where the call is:
\* "idle", "notify" (inside store.set's listeners.forEach), "unwind" (the
\* innermost hydrate goes on after its set), "overflow" (the stack is
\* full), "returned", "threw"; ran tells whether the listener was called
NoFrames(listener) ==
  [listener |-> listener, depth |-> 0, pc |-> "idle", ran |-> FALSE]
FramesIdle == frames = NoFrames("passive")

\* ------------------------------------------------- handler: the state
NoTimer == [on |-> FALSE, data |-> Undefined, left |-> 0]
NoRead == [st |-> "none", raw |-> NoRaw]
NoRecord == [value |-> Undefined, version |-> Undef]
NoSource == [has |-> FALSE, s |-> Undefined]

\* what the last action did; every action starts from NoLast
NoLast ==
  [ret |-> "none",         \* what a hydrate() call of the action returned
   cached |-> FALSE,       \* that call ran the function cached by the first call
   hyd |-> FALSE,          \* hydration processed its read and set the container
   hydReq |-> FALSE,       \* that set reached the handler's listener and setItem
   pre |-> Undefined,      \* currentState when the read's result was processed
   data |-> NullData,      \* the parsed data given to processStoredData
   mig |-> <<>>,           \* the arguments of each migrate call
   getItem |-> "none",     \* handler getItem: "returned", "fulfilled", "rejected"
   getItemResult |-> Undefined, \* the value it returned or resolved to
   hydVal |-> Undefined,   \* the value hydration passed to store.set
   readFrom |-> NoSource,  \* the container state the record read was written from
   wrote |-> FALSE,        \* the adapter's setItem was called
   fault |-> "none",       \* what went wrong with that call
   backendCalled |-> FALSE, \* the backend's setItem was called
   logged |-> FALSE,       \* the handler's catch logged the failure
   unhandled |-> FALSE,    \* a rejected promise was left without a handler
   threw |-> FALSE,        \* the call of the action ended in an exception
   warned |-> FALSE,       \* the uninitialized sentinel answered a call
   writeArg |-> NoRecord]  \* with this record

\* what a fresh handler has seen: nothing
NoObs(reloaded, writtenS) ==
  [reads |-> 0,            \* backend getItem calls
   hydSets |-> 0,          \* store.set calls made by hydration
   outcome |-> "none",     \* "sync", "resolved", "rejected": how the read ended
   errors |-> 0,           \* LOG.error calls
   hasReq |-> FALSE,       \* some setItem request was made
   sinceReq |-> 0,         \* ticks since the last request (saturating)
   burstWrites |-> 0,      \* backend setItem calls since the current burst began
   burstMany |-> FALSE,    \* the current burst holds two requests or more
   reqData |-> Undefined,  \* the data of the last request
   pending |-> 0,          \* timers set by setItem, neither fired nor cleared
   writtenS |-> writtenS,  \* the container state the record found at the
                           \* reload was written from, until it is read
   readFrom |-> NoSource,  \* writtenS when the pending read was issued
   reloaded |-> reloaded,  \* this handler was made by a page reload
   last |-> NoLast]

\* the whole state as one record, so that nested calls compose as functions
Cur ==
  [currentState |-> currentState, fetchCurrentState |-> fetchCurrentState,
   listeners |-> listeners, nextListener |-> nextListener,
   unsubscribeStore |-> unsubscribeStore, hydrateImpl |-> hydrateImpl,
   hydratePromise |-> hydratePromise, storage |-> storage,
   timeoutId |-> timeoutId, backend |-> backend, inflight |-> inflight,
   obs |-> obs]

Commit(s) ==
  /\ currentState' = s.currentState
  /\ fetchCurrentState' = s.fetchCurrentState
  /\ listeners' = s.listeners
  /\ nextListener' = s.nextListener
  /\ unsubscribeStore' = s.unsubscribeStore
  /\ hydrateImpl' = s.hydrateImpl
  /\ hydratePromise' = s.hydratePromise
  /\ storage' = s.storage
  /\ timeoutId' = s.timeoutId
  /\ backend' = s.backend
  /\ inflight' = s.inflight
  /\ obs' = s.obs
  /\ UNCHANGED <<config, gateVars, adapter, mergeCall, frames>>

Fresh(raw, reloaded, writtenS) ==
  [currentState |-> InitialState, fetchCurrentState |-> "initializeValue",
   listeners |-> {}, nextListener |-> 1, unsubscribeStore |-> 0,
   hydrateImpl |-> "original", hydratePromise |-> "none",
   storage |-> "sentinel", timeoutId |-> NoTimer, backend |-> raw,
   inflight |-> NoRead, obs |-> NoObs(reloaded, writtenS)]

\* --------------------------------------------------- PersistHandler.setItem
\* clearTimeout(this.timeoutId); this.timeoutId = setTimeout(..., debounceTime)
setItemKeepPending(s, data) ==
  [s EXCEPT
     !.timeoutId = IF s.timeoutId.on THEN s.timeoutId
                   ELSE [on |-> TRUE, data |-> data, left |-> config.debounceTime],
     !.obs.pending = IF s.timeoutId.on THEN @ ELSE @ + 1,
     !.obs.hasReq = TRUE, !.obs.sinceReq = 0, !.obs.reqData = data,
     !.obs.burstWrites =
        IF s.obs.hasReq /\ s.obs.sinceReq < config.debounceTime THEN @ ELSE 0,
     !.obs.burstMany = s.obs.hasReq /\ s.obs.sinceReq < config.debounceTime]
setItemNoClear(s, data) ==
  [s EXCEPT
     !.timeoutId = [on |-> TRUE, data |-> data, left |-> config.debounceTime],
     !.obs.pending = @ + 1,
     !.obs.hasReq = TRUE, !.obs.sinceReq = 0, !.obs.reqData = data,
     !.obs.burstWrites =
        IF s.obs.hasReq /\ s.obs.sinceReq < config.debounceTime THEN @ ELSE 0,
     !.obs.burstMany = s.obs.hasReq /\ s.obs.sinceReq < config.debounceTime]
setItem(s, data) ==
  [s EXCEPT
     !.timeoutId = [on |-> TRUE, data |-> data, left |-> config.debounceTime],
     \* clearTimeout(this.timeoutId) takes the pending timer away, if any
     !.obs.pending = (IF s.timeoutId.on THEN @ - 1 ELSE @) + 1,
     !.obs.hasReq = TRUE, !.obs.sinceReq = 0, !.obs.reqData = data,
     \* a request that comes debounceTime or more after the last begins a burst
     !.obs.burstWrites =
        IF s.obs.hasReq /\ s.obs.sinceReq < config.debounceTime THEN @ ELSE 0,
     !.obs.burstMany = s.obs.hasReq /\ s.obs.sinceReq < config.debounceTime]

\* the body of the scheduled callback: partial, then storage.setItem, which
\* the adapter turns into JSON.stringify and the backend's setItem
WriteRecordNoPartial(s) ==
  [value |-> s.timeoutId.data, version |-> config.version]
WriteRecord(s) ==
  [value |-> partialFn(config, s.timeoutId.data), version |-> config.version]

\* what can go wrong with one write: the value does not serialize (a circular
\* structure), the backend's setItem throws, or the promise it returns rejects
Faults == {"none", "circular", "throws", "rejects"}

\* createJSONStorage.setItem, an async function: whatever is thrown inside it
\* rejects the promise it returns; JSON.stringify runs before the backend's
\* setItem is called
adapterSetItemSwallows(raw, rec, fault) ==
  [promise |-> "fulfilled",
   called |-> fault # "circular",
   backend |-> IF fault = "none" THEN JSONstringify(rec) ELSE raw]
adapterSetItem(raw, rec, fault) ==
  [promise |-> IF fault = "none" THEN "fulfilled" ELSE "rejected",
   called |-> fault # "circular",
   backend |-> IF fault = "none" THEN JSONstringify(rec) ELSE raw]

\* try { this.storage.setItem(key, record) } catch (error) { LOG.error(...) }:
\* the promise the adapter returns is neither awaited nor given a handler, so
\* the catch sees only what is thrown before a promise is returned
timerCallback(s, fault) ==
  LET rec == WriteRecord(s)
      r == adapterSetItem(s.backend, rec, fault) IN
  IF s.storage = "json"
  THEN [s EXCEPT
          !.timeoutId = NoTimer,
          !.obs.pending = @ - 1,
          !.backend = r.backend,
          !.obs.errors = IF r.promise = "thrown" THEN @ + 1 ELSE @,
          !.obs.burstWrites = @ + 1,
          !.obs.last.wrote = TRUE, !.obs.last.writeArg = rec,
          !.obs.last.fault = fault,
          !.obs.last.backendCalled = r.called,
          !.obs.last.logged = (r.promise = "thrown"),
          !.obs.last.unhandled = (r.promise = "rejected"),
          !.obs.writtenS = IF s.obs.reloaded THEN @
                           ELSE [has |-> TRUE, s |-> s.timeoutId.data]]
  ELSE \* the sentinel warns and does nothing
       [s EXCEPT !.timeoutId = NoTimer, !.obs.pending = @ - 1,
                 !.obs.last.warned = TRUE]

\* ------------------------------------------------------------- IgrisMaster
\* this.listeners.forEach((listener) => listener(this.currentState)); every
\* listener of this model is the handler's, which calls setItem(data)
notifyAlways(s) == setItem(s, s.currentState)
notify(s) ==
  IF s.listeners = {} THEN s ELSE setItem(s, s.currentState)

\* set(updateAction) with a plain value
set(s, value) == notify([s EXCEPT !.currentState = value])

\* ---------------------------------------------------------- PersistHandler
subscribeStoreNever(s) == s
subscribeStoreKeepsOld(s) ==
  [s EXCEPT !.listeners = @ \cup {s.nextListener},
            !.unsubscribeStore = s.nextListener,
            !.nextListener = @ + 1]
subscribeStore(s) ==
  [s EXCEPT !.listeners = (@ \ {s.unsubscribeStore}) \cup {s.nextListener},
            !.unsubscribeStore = s.nextListener,
            !.nextListener = @ + 1]

\* createJSONStorage gives undefined when resolving the provider throws, and
\* this.storage then stays the sentinel
initializeStorageAlways(s) == [s EXCEPT !.storage = "json"]
initializeStorage(s) ==
  IF config.setup = "providerThrows" THEN s ELSE [s EXCEPT !.storage = "json"]

\* const { value, version } = data: a key the record lacks reads as undefined
RecordValue(data) == IF data.value = Missing THEN Undefined ELSE data.value
RecordVersion(data) == IF data.version = Absent THEN Undef ELSE data.version

\* this.config.version !== version && this.config.migrate
shouldMigrateAnyVersion(c, version) == c.migrate
shouldMigrate(c, version) == c.version # version /\ c.migrate

\* processStoredData: [out: the value returned, mig: the migrate calls made]
processStoredDataDropMismatch(c, cur, data) ==
  IF data.null \/ (c.version # RecordVersion(data) /\ ~c.migrate)
  THEN [out |-> cur, mig |-> <<>>]
  ELSE LET value == RecordValue(data)
           version == RecordVersion(data)
           processedData ==
             IF shouldMigrate(c, version) THEN migrateFn(value, version) ELSE value
       IN [out |-> mergeFunction(c, cur, processedData),
           mig |-> IF shouldMigrate(c, version)
                   THEN <<[value |-> value, version |-> version]>> ELSE <<>>]
processStoredDataNullOnAbsent(c, cur, data) ==
  IF data.null THEN [out |-> Null, mig |-> <<>>]
  ELSE LET value == RecordValue(data)
           version == RecordVersion(data)
           processedData ==
             IF shouldMigrate(c, version) THEN migrateFn(value, version) ELSE value
       IN [out |-> mergeFunction(c, cur, processedData),
           mig |-> IF shouldMigrate(c, version)
                   THEN <<[value |-> value, version |-> version]>> ELSE <<>>]
processStoredData(c, cur, data) ==
  IF data.null THEN [out |-> cur, mig |-> <<>>]       \* if (!data) return currentState
  ELSE LET value == RecordValue(data)
           version == RecordVersion(data)
           processedData ==
             IF shouldMigrate(c, version) THEN migrateFn(value, version) ELSE value
       IN [out |-> mergeFunction(c, cur, processedData),
           mig |-> IF shouldMigrate(c, version)
                   THEN <<[value |-> value, version |-> version]>> ELSE <<>>]

\* getItem on data read from storage: processStoredData against the state the
\* container has now
ProcessedAgainstInitial(s, data, how) ==
  LET p == processStoredData(config, InitialState, data) IN
  [s EXCEPT !.obs.outcome = how, !.obs.last.pre = s.currentState,
            !.obs.last.data = data, !.obs.last.mig = @ \o p.mig,
            !.obs.last.getItem = IF how = "sync" THEN "returned" ELSE "fulfilled",
            !.obs.last.getItemResult = p.out,
            !.obs.last.readFrom = s.obs.readFrom,
            !.obs.readFrom = NoSource]
Processed(s, data, how) ==
  LET p == processStoredData(config, s.currentState, data) IN
  [s EXCEPT !.obs.outcome = how, !.obs.last.pre = s.currentState,
            !.obs.last.data = data, !.obs.last.mig = @ \o p.mig,
            !.obs.last.getItem = IF how = "sync" THEN "returned" ELSE "fulfilled",
            !.obs.last.getItemResult = p.out,
            !.obs.last.readFrom = s.obs.readFrom,
            !.obs.readFrom = NoSource]

\* the adapter's asynchronous getItem, parseJSON(await item), once the
\* backend's promise has settled: a rejection passes through
adapterSettled(ok, raw) ==
  [ok |-> ok, data |-> IF ok THEN parseJSON(raw) ELSE NullData]

\* the handler's asynchronous getItem once the adapter's promise has settled:
\* try { return processStoredData(await storedData) } catch { LOG.error; return null }
getItemSettledNoCatch(s, a) ==
  IF a.ok
  THEN Processed(s, a.data, "resolved")
  ELSE [s EXCEPT !.obs.outcome = "rejected", !.obs.last.pre = s.currentState,
                 !.obs.last.getItem = "rejected"]
getItemSettled(s, a) ==
  IF a.ok
  THEN Processed(s, a.data, "resolved")
  ELSE [s EXCEPT !.obs.outcome = "rejected", !.obs.errors = @ + 1,
                 !.obs.last.pre = s.currentState,
                 !.obs.last.getItem = "fulfilled",
                 !.obs.last.getItemResult = Null]

\* the hydration's own store.set(value)
hydrateSetRequestsWrite(s, value) ==
  notifyAlways([s EXCEPT !.obs.hydSets = @ + 1, !.obs.last.hyd = TRUE,
                         !.obs.last.hydReq = TRUE,
                         !.obs.last.hydVal = value, !.currentState = value])
hydrateSet(s, value) ==
  set([s EXCEPT !.obs.hydSets = @ + 1, !.obs.last.hyd = TRUE,
                !.obs.last.hydReq = s.listeners # {},
                !.obs.last.hydVal = value], value)

\* hydratePromise: const resolvedValue = await storedValue; this.store.set(resolvedValue)
hydrateSettled(s) ==
  IF s.obs.last.getItem = "rejected"
  THEN [s EXCEPT !.hydratePromise = "rejected"]
  ELSE [hydrateSet(s, s.obs.last.getItemResult) EXCEPT !.hydratePromise = "fulfilled"]

\* the first hydrate(): reads storage and replaces this.hydrate by a function
\* returning the cached result
hydrateOriginal(s) ==
  LET s1 == initializeStorage(s)
      \* getItem: this.storage.getItem(this.key), one backend read
      s2 == [s1 EXCEPT !.obs.reads = @ + 1, !.obs.readFrom = s.obs.writtenS,
                       !.obs.writtenS = NoSource]
  IN IF s1.storage = "sentinel"
     THEN \* the sentinel's getItem warns and returns null: no backend read
          LET s3 == Processed([s1 EXCEPT !.obs.last.warned = TRUE],
                              NullData, "sync")
              s4 == hydrateSet(s3, s3.obs.last.getItemResult)
              s5 == [s4 EXCEPT !.hydrateImpl = "undefined"]
          IN [subscribeStore(s5) EXCEPT !.obs.last.ret = "undefined"]
     ELSE IF config.setup = "getItemThrows"
     THEN \* storageInstance.getItem throws: nothing catches it on the
          \* synchronous path, and hydrate ends there
          [s1 EXCEPT !.obs.reads = @ + 1, !.obs.last.threw = TRUE]
     ELSE IF config.async
     THEN LET s3 == [s2 EXCEPT
                       !.inflight = [st |-> "pending", raw |-> s.backend],
                       !.hydratePromise = "pending",
                       !.hydrateImpl = "promise"]
          IN [subscribeStore(s3) EXCEPT !.obs.last.ret = "promise"]
     ELSE LET s3 == Processed(s2, parseJSON(s.backend), "sync")
              s4 == hydrateSet(s3, s3.obs.last.getItemResult)
              s5 == [s4 EXCEPT !.hydrateImpl = "undefined"]
          IN [subscribeStore(s5) EXCEPT !.obs.last.ret = "undefined"]

\* hydrate(): whatever this.hydrate is now
hydrateNeverCached(s) == hydrateOriginal(s)
hydrate(s) ==
  CASE s.hydrateImpl = "undefined" ->
         [s EXCEPT !.obs.last.ret = "undefined", !.obs.last.cached = TRUE]
    [] s.hydrateImpl = "promise" ->
         [s EXCEPT !.obs.last.ret = "promise", !.obs.last.cached = TRUE]
    [] OTHER -> hydrateOriginal(s)

\* ------------------------------------------- IgrisMaster, the lazy first fetch
initializeValueAlways(s) ==
  LET s1 == IF hasPersist(config) THEN hydrate(s) ELSE s
  IN IF s1.obs.last.threw THEN s1 ELSE [s1 EXCEPT !.fetchCurrentState = "plain"]
initializeValue(s) ==
  LET s1 == IF hasPersist(config) /\ ~config.skipHydrate THEN hydrate(s) ELSE s
  IN \* an exception leaves before fetchCurrentState is replaced
     IF s1.obs.last.threw THEN s1 ELSE [s1 EXCEPT !.fetchCurrentState = "plain"]

get(s) ==
  IF s.fetchCurrentState = "initializeValue" THEN initializeValue(s) ELSE s

\* set(updateAction) with a function: prev => ({ ...prev, [key]: n })
setFn(s, key, n) ==
  LET s1 == get(s)
      next == Obj([Spread(s1.currentState) EXCEPT ![key] = Num(n)])
  IN IF s1.obs.last.threw THEN s1
     ELSE notify([s1 EXCEPT !.currentState = next])

\* ------------------------------------------------------------------ actions
Begin == [Cur EXCEPT !.obs.last = NoLast]

Init ==
  /\ config \in Configs
  /\ \E raw \in InitialRaws :
       /\ currentState = InitialState
       /\ fetchCurrentState = "initializeValue"
       /\ listeners = {}
       /\ nextListener = 1
       /\ unsubscribeStore = 0
       /\ hydrateImpl = "original"
       /\ hydratePromise = "none"
       /\ storage = "sentinel"
       /\ timeoutId = NoTimer
       /\ backend = raw
       /\ inflight = NoRead
       /\ obs = NoObs(FALSE, NoSource)
  /\ GateIdle
  /\ AdapterIdle
  /\ MergeIdle
  /\ FramesIdle

\* store.get()
Get ==
  /\ obs.reads < MaxReads
  /\ Commit(get(Begin))

\* store.set(value)
SetValue == \E v \in Inputs : Commit(set(Begin, v))

\* store.set(prev => ...)
SetFn ==
  /\ obs.reads < MaxReads
  /\ \E n \in 1..MaxVal : Commit(setFn(Begin, "a", n))

\* persist.hydrate(), called directly or by a hydration coordinator
Hydrate ==
  /\ hasPersist(config)
  /\ obs.reads < MaxReads
  /\ Commit(hydrate(Begin))

\* the backend's promise fulfils with the string it read: the adapter parses,
\* the handler's getItem processes, hydrate's continuation sets the container
ReadResolve ==
  /\ inflight.st = "pending"
  /\ LET s1 == [Begin EXCEPT !.inflight = NoRead]
     IN Commit(hydrateSettled(getItemSettled(s1, adapterSettled(TRUE, inflight.raw))))

\* the backend's promise rejects
ReadReject ==
  /\ inflight.st = "pending"
  /\ LET s1 == [Begin EXCEPT !.inflight = NoRead]
     IN Commit(hydrateSettled(getItemSettled(s1, adapterSettled(FALSE, inflight.raw))))

\* the debounce timer is due and its callback runs
TimerFire ==
  /\ timeoutId.on /\ timeoutId.left = 0
  /\ Commit(timerCallback(Begin, "none"))

\* the same, over a backend or a value that may fail the write
TimerFireFault ==
  /\ timeoutId.on /\ timeoutId.left = 0
  /\ \E fault \in Faults : Commit(timerCallback(Begin, fault))

\* one tick of time passes; a timer that is due fires first
Tick ==
  /\ ~(timeoutId.on /\ timeoutId.left = 0)
  /\ Commit([Begin EXCEPT
       !.timeoutId.left = IF timeoutId.on THEN @ - 1 ELSE @,
       !.obs.sinceReq = IF @ <= config.debounceTime THEN @ + 1 ELSE @])

\* the page is reloaded, once, after the handler has written its record: a
\* fresh container and handler over the same backend; a write still pending
\* is lost
Restart ==
  /\ ~obs.reloaded
  /\ inflight.st = "none"
  /\ obs.writtenS.has
  /\ Commit(Fresh(backend, TRUE, obs.writtenS))

Next ==
  \/ Get
  \/ SetValue
  \/ SetFn
  \/ Hydrate
  \/ ReadResolve
  \/ ReadReject
  \/ TimerFire
  \/ Tick

Spec == Init /\ [][Next]_vars

\* the same program over a page reload
NextReload ==
  \/ Next
  \/ Restart

SpecReload == Init /\ [][NextReload]_vars

\* the same program over writes that may fail
NextFault ==
  \/ Get
  \/ SetValue
  \/ SetFn
  \/ Hydrate
  \/ ReadResolve
  \/ ReadReject
  \/ TimerFireFault
  \/ Tick

SpecFault == Init /\ [][NextFault]_vars

\* a container set up wrongly: no name, or a storage that cannot be had or
\* read. The constructor logs the missing name.
InitDegraded ==
  /\ config \in DegradedConfigs
  /\ \E raw \in InitialRaws :
       /\ currentState = InitialState
       /\ fetchCurrentState = "initializeValue"
       /\ listeners = {}
       /\ nextListener = 1
       /\ unsubscribeStore = 0
       /\ hydrateImpl = "original"
       /\ hydratePromise = "none"
       /\ storage = "sentinel"
       /\ timeoutId = NoTimer
       /\ backend = raw
       /\ inflight = NoRead
       /\ obs = [NoObs(FALSE, NoSource) EXCEPT
                  !.errors = IF hasPersist(config) THEN 0 ELSE 1]
  /\ GateIdle
  /\ AdapterIdle
  /\ MergeIdle
  /\ FramesIdle

NextDegraded ==
  \/ Get
  \/ SetValue
  \/ SetFn
  \/ Hydrate
  \/ TimerFire
  \/ Tick

SpecDegraded == InitDegraded /\ [][NextDegraded]_vars

GCur == [stores |-> stores, joins |-> joins, gate |-> gate]

GCommit(g) ==
  /\ stores' = g.stores
  /\ joins' = g.joins
  /\ gate' = g.gate
  /\ UNCHANGED <<config, currentState, fetchCurrentState, listeners,
                 nextListener, unsubscribeStore, hydrateImpl, hydratePromise,
                 storage, timeoutId, backend, inflight, obs, adapter,
                 mergeCall, frames>>

\* --------------------------------------------------------- setupHydrator
\* store.persist.hydrate() of one container of the list, by its result: the
\* first call reads the storage and caches undefined or the promise
\* createJSONStorage(this.config.storage || defaultStorage)
storageProvider(h) == IF h.storage = "unset" THEN "localStorage" ELSE h.storage
storeHydrate(h) ==
  IF h.hydrateImpl # "original" THEN h
  ELSE IF isAsyncStorage(h.storage)
       THEN [h EXCEPT !.hydrateImpl = "promise", !.promise = "pending",
                      !.read = "pending", !.uses = storageProvider(h)]
       ELSE [h EXCEPT !.hydrateImpl = "undefined", !.uses = storageProvider(h)]

\* the backend's read of one store settles. The handler's getItem catches a
\* rejection and resolves to null, hydrate's continuation sets the container
\* and the hydration promise is fulfilled either way
storeSettledNoCatch(h, ok) ==
  [h EXCEPT !.read = IF ok THEN "fulfilled" ELSE "rejected",
            !.promise = IF ok THEN "fulfilled" ELSE "rejected"]
storeSettled(h, ok) ==
  [h EXCEPT !.read = IF ok THEN "fulfilled" ELSE "rejected",
            !.promise = "fulfilled"]

\* the body of the coordinator's loop for one store
coordinatorStoreOverride(h, fallback) ==
  IF ~h.persist THEN h
  ELSE storeHydrate([h EXCEPT !.storage = IF fallback # "unset" THEN fallback ELSE @])
coordinatorStore(h, fallback) ==
  IF ~h.persist THEN h
  ELSE storeHydrate(
         [h EXCEPT !.storage =
            IF @ = "unset" /\ fallback # "unset" THEN fallback ELSE @])

\* the function setupHydrator returns, invoked: what it returns is appended
\* to joins
coordinatorAwaitsEach(g, fallback) ==
  LET all == [s \in Stores |-> coordinatorStore(g.stores[s], fallback)]
      after == [s \in Stores |->
                  IF \E r \in Stores : r < s /\ all[r].promise = "pending"
                  THEN g.stores[s] ELSE all[s]]
      hydrationPromises ==
        {s \in Stores : after[s].persist /\ after[s].hydrateImpl = "promise"}
      result ==
        IF hydrationPromises = {}
        THEN [ret |-> "undefined", waits |-> {}, st |-> "none"]
        ELSE [ret |-> "promise", waits |-> hydrationPromises, st |-> "pending"]
  IN [g EXCEPT !.stores = after, !.joins = Append(@, result),
               !.gate.lastFallback = fallback]
coordinator(g, fallback) ==
  LET after == [s \in Stores |-> coordinatorStore(g.stores[s], fallback)]
      hydrationPromises ==
        {s \in Stores : after[s].persist /\ after[s].hydrateImpl = "promise"}
      result ==
        IF hydrationPromises = {}
        THEN [ret |-> "undefined", waits |-> {}, st |-> "none"]
        ELSE [ret |-> "promise", waits |-> hydrationPromises, st |-> "pending"]
  IN [g EXCEPT !.stores = after, !.joins = Append(@, result),
               !.gate.lastFallback = fallback]

\* await Promise.all(hydrationPromises): the state the coordinator's promise
\* can move to
promiseRace(j, st) ==
  IF j.st = "pending" /\ \E s \in j.waits : st[s].promise = "fulfilled"
  THEN "fulfilled" ELSE j.st
promiseAll(j, st) ==
  IF j.st = "pending" /\ \A s \in j.waits : st[s].promise = "fulfilled"
  THEN "fulfilled" ELSE j.st

\* --------------------------------------------------------------- Hydrator
\* the first evaluation of getSnapshot: props.handler() ?? null, or the
\* coordinator over props.stores and props.config, ?? null; a result that is
\* not a promise opens the gate at once
hydrationAttemptStaysClosed(g) ==
  IF g.gate.props.handler # "none"
  THEN [g EXCEPT
          !.gate.attempts = @ + 1,
          !.gate.promiseRef =
             IF g.gate.props.handler = "promise" THEN "promise" ELSE "null",
          !.gate.custom =
             IF g.gate.props.handler = "promise" THEN "pending" ELSE @]
  ELSE LET g1 == coordinator(g, g.gate.props.fallback)
           n == Len(g1.joins)
       IN [g1 EXCEPT
             !.gate.attempts = @ + 1,
             !.gate.join = n,
             !.gate.promiseRef =
                IF g1.joins[n].ret = "promise" THEN "promise" ELSE "null"]
hydrationAttempt(g) ==
  IF g.gate.props.handler # "none"
  THEN [g EXCEPT
          !.gate.attempts = @ + 1,
          !.gate.promiseRef =
             IF g.gate.props.handler = "promise" THEN "promise" ELSE "null",
          !.gate.custom =
             IF g.gate.props.handler = "promise" THEN "pending" ELSE @,
          !.gate.isHydrated =
             IF g.gate.props.handler = "promise" THEN @ ELSE TRUE]
  ELSE LET g1 == coordinator(g, g.gate.props.fallback)
           n == Len(g1.joins)
       IN [g1 EXCEPT
             !.gate.attempts = @ + 1,
             !.gate.join = n,
             !.gate.promiseRef =
                IF g1.joins[n].ret = "promise" THEN "promise" ELSE "null",
             !.gate.isHydrated =
                IF g1.joins[n].ret = "promise" THEN @ ELSE TRUE]

\* getSnapshot: the attempt is made while promiseRef.current === undefined
getSnapshotNoCache(g) == hydrationAttempt(g)
getSnapshot(g) ==
  IF g.gate.promiseRef = "undefined" THEN hydrationAttempt(g) ELSE g

\* one render: useSyncExternalStore reads the snapshot, useMemo picks the
\* placeholder or the children
render(g) ==
  LET g1 == getSnapshot(g) IN
  [g1 EXCEPT !.gate.rendered =
               IF g1.gate.isHydrated THEN "children" ELSE "loading",
             !.gate.storeChanged = FALSE]

\* subscribe(onStoreChange): while the gate is closed, attach a callback to
\* Promise.resolve(promiseRef.current)
subscribeOpens(g) ==
  [g EXCEPT !.gate.subscribes = @ + 1, !.gate.isHydrated = TRUE]
subscribe(g) ==
  [g EXCEPT !.gate.subscribes = @ + 1,
            !.gate.thens = IF g.gate.isHydrated THEN @ ELSE @ + 1]

\* the state of the promise the gate waits for; Promise.resolve of a value
\* that is no promise is fulfilled
gatePromise(g) ==
  IF g.gate.promiseRef # "promise" THEN "fulfilled"
  ELSE IF g.gate.join > 0 THEN g.joins[g.gate.join].st
       ELSE g.gate.custom

\* the callback given to then, which has no rejection handler: it runs once
\* the promise is fulfilled
thenCallback(g) ==
  [g EXCEPT !.gate.isHydrated = TRUE, !.gate.thens = @ - 1]

\* ------------------------------------------ coordinator and gate: actions
\* the handler side at rest, while the coordinator and the gate run
PersistIdle ==
  /\ config = [version |-> Undef, migrate |-> FALSE, merge |-> "default",
               partial |-> "identity", skipHydrate |-> FALSE, async |-> FALSE,
               debounceTime |-> Debounce, setup |-> "ok"]
  /\ currentState = InitialState
  /\ fetchCurrentState = "initializeValue"
  /\ listeners = {}
  /\ nextListener = 1
  /\ unsubscribeStore = 0
  /\ hydrateImpl = "original"
  /\ hydratePromise = "none"
  /\ storage = "sentinel"
  /\ timeoutId = NoTimer
  /\ backend = NoRaw
  /\ inflight = NoRead
  /\ obs = NoObs(FALSE, NoSource)

\* every action starts with no coordinator observed
GBegin == [GCur EXCEPT !.gate.lastFallback = "unset"]

InitGate ==
  /\ PersistIdle
  /\ stores \in [Stores -> StoreConfigs]
  /\ joins = <<>>
  /\ gate \in {NoGate(props) : props \in GateProps}
  /\ AdapterIdle
  /\ MergeIdle
  /\ FramesIdle

\* React renders the gate: the first time, or again for any reason
GateRender == GCommit(render(GBegin))

\* React calls subscribe after a render
GateSubscribe ==
  /\ gate.rendered # "none"
  /\ gate.subscribes < MaxSubscribes
  /\ GCommit(subscribe(GBegin))

\* a callback attached by subscribe runs
GateThen ==
  /\ gate.thens > 0
  /\ gatePromise(GCur) = "fulfilled"
  /\ GCommit(thenCallback(GBegin))

\* the custom handler's promise settles
CustomSettle ==
  /\ gate.custom = "pending"
  /\ \E r \in {"fulfilled", "rejected"} :
       GCommit([GBegin EXCEPT !.gate.custom = r])

\* the backend read of one store settles, and with it its hydration promise
StoreResolve ==
  \E s \in Stores, ok \in BOOLEAN :
    /\ stores[s].promise = "pending"
    /\ GCommit([GBegin EXCEPT !.stores[s] = storeSettled(@, ok)])

\* the promise a coordinator invocation returned resolves
JoinSettle ==
  \E i \in 1..Len(joins) :
    /\ joins[i].st = "pending"
    /\ promiseAll(joins[i], stores) = "fulfilled"
    /\ GCommit([GBegin EXCEPT !.joins[i].st = "fulfilled"])

\* the application invokes a coordinator over the same list
AppCoordinator ==
  /\ Len(joins) - (IF gate.join > 0 THEN 1 ELSE 0) < MaxCalls
  /\ \E fallback \in Fallbacks : GCommit(coordinator(GBegin, fallback))

\* the application hydrates one store itself (store.get(), persist.hydrate())
AppHydrate ==
  \E s \in Stores :
    /\ stores[s].persist
    /\ stores[s].hydrateImpl = "original"
    /\ GCommit([GBegin EXCEPT !.stores[s] = storeHydrate(@)])

\* the value of some store changes; the gate is subscribed to no store, the
\* components it shows are
StoreChange ==
  /\ ~gate.storeChanged
  /\ GCommit([GBegin EXCEPT !.gate.storeChanged = TRUE])

NextGate ==
  \/ GateRender
  \/ GateSubscribe
  \/ GateThen
  \/ CustomSettle
  \/ StoreResolve
  \/ JoinSettle
  \/ AppCoordinator
  \/ AppHydrate
  \/ StoreChange

SpecGate == InitGate /\ [][NextGate]_vars

\* the gate alone over the list: the application invokes no coordinator of
\* its own. React renders and subscribes a mounted component, microtasks run
\* and the storage reads of the stores end
NextGateAlone ==
  \/ GateRender
  \/ GateSubscribe
  \/ GateThen
  \/ CustomSettle
  \/ StoreResolve
  \/ JoinSettle
  \/ AppHydrate
  \/ StoreChange

SpecGateFair ==
  /\ InitGate
  /\ [][NextGateAlone]_vars
  /\ WF_vars(GateRender)
  /\ WF_vars(GateSubscribe)
  /\ WF_vars(GateThen)
  /\ WF_vars(JoinSettle)
  /\ WF_vars(StoreResolve)

\* ------------------------------------------ createJSONStorage, directly
\* getItem(key): parseJSON(item) at once, or a promise when the backend's
\* getItem returned one
adapterGetItem(async, raw) ==
  IF async
  THEN [made |-> TRUE, kind |-> "promise", st |-> "pending", data |-> NullData,
        raw |-> raw, ok |-> TRUE]
  ELSE [made |-> TRUE,
        kind |-> IF parseJSONResult(raw).threw THEN "thrown" ELSE "value",
        st |-> "none", data |-> parseJSONResult(raw).data, raw |-> raw,
        ok |-> TRUE]

\* runImmediately(async () => parseJSON(await item)) once item has settled
adapterGetItemSettledNoParse(res, ok) ==
  [res EXCEPT !.st = IF ok THEN "fulfilled" ELSE "rejected",
              !.ok = ok,
              !.data = IF ok /\ res.raw.t # "none"
                       THEN [null |-> FALSE, value |-> res.raw.value,
                             version |-> res.raw.version]
                       ELSE NullData]
adapterGetItemSettled(res, ok) ==
  [res EXCEPT !.st = IF ok /\ ~parseJSONResult(res.raw).threw
                     THEN "fulfilled" ELSE "rejected",
              !.ok = ok,
              !.data = IF ok THEN parseJSONResult(res.raw).data ELSE NullData]

ACommit(a) ==
  /\ adapter' = a
  /\ UNCHANGED <<config, currentState, fetchCurrentState, listeners,
                 nextListener, unsubscribeStore, hydrateImpl, hydratePromise,
                 storage, timeoutId, backend, inflight, obs, gateVars,
                 mergeCall, frames>>

InitAdapter ==
  /\ PersistIdle
  /\ GateIdle
  /\ adapter \in {NoAdapter(raw, async) : raw \in InitialRaws, async \in BOOLEAN}
  /\ MergeIdle
  /\ FramesIdle

\* a caller calls getItem(key)
AdapterGetItem ==
  /\ adapter.get.st # "pending"
  /\ ACommit([adapter EXCEPT !.get = adapterGetItem(adapter.async, adapter.backend)])

\* the promise of the backend's getItem settles
AdapterGetItemSettle ==
  /\ adapter.get.st = "pending"
  /\ \E ok \in BOOLEAN :
       ACommit([adapter EXCEPT !.get = adapterGetItemSettled(@, ok)])

\* a caller calls setItem(key, value); the promise it returns is shown settled
AdapterSetItem ==
  \E v \in Inputs, ver \in Versions, fault \in Faults :
    LET r == adapterSetItem(adapter.backend, [value |-> v, version |-> ver], fault)
    IN ACommit([adapter EXCEPT
         !.backend = r.backend,
         !.remove = NoRemove,
         !.set = [made |-> TRUE, fault |-> fault, promise |-> r.promise,
                  called |-> r.called, before |-> adapter.backend]])

\* removeItem(key), an async function: it calls the backend's removeItem and
\* awaits what that returned if it is a promise; ok tells whether the backend's
\* call succeeded
adapterRemoveItem(a, ok) ==
  [a EXCEPT !.backend = IF ok THEN NoRaw ELSE @,
            !.set = NoSet,     \* set and remove describe the last call only
            !.remove = [made |-> TRUE, kind |-> "promise",
                        st |-> IF ok THEN "fulfilled" ELSE "rejected"]]

\* a caller calls removeItem(key); the promise it returns is shown settled
AdapterRemoveItem ==
  \E ok \in BOOLEAN : ACommit(adapterRemoveItem(adapter, ok))

NextAdapter ==
  \/ AdapterGetItem
  \/ AdapterGetItemSettle
  \/ AdapterSetItem
  \/ AdapterRemoveItem

SpecAdapter == InitAdapter /\ [][NextAdapter]_vars

\* ---------------------------------------------------------------- deepMerge
\* merge on a nested object: its properties are numbers, so each key of the
\* source is assigned over the target's
mergeInner(targetValue, sourceValue) ==
  [key \in InnerKeys |->
     IF sourceValue[key] # 0 THEN sourceValue[key] ELSE targetValue[key]]

\* const merge = (target, source) => { Object.keys(source).forEach(...);
\* return target }: the content target has when merge returns. Two objects
\* give merge({...targetValue}, sourceValue), anything else the source's value
merge(target, source) ==
  [key \in Keys |->
     IF source[key] = MAbsent THEN target[key]
     ELSE IF target[key].t = "obj" /\ source[key].t = "obj"
     THEN MObj(mergeInner(target[key].o, source[key].o))
     ELSE source[key]]

\* sources.reduce((prev, cur) => merge(prev, cur), target)
RECURSIVE reduce(_, _)
reduce(sources, prev) ==
  IF sources = <<>> THEN prev
  ELSE reduce(Tail(sources), merge(prev, Head(sources)))

\* deepMerge(target, ...sources). merge assigns into the object it is given
\* and returns it, and the fold starts from target: the object returned is
\* target itself, holding the merged content. A nested object of target is
\* copied before it is merged into and the sources are only read.
deepMerge(target, sources) ==
  [made |-> TRUE, target |-> target, sources |-> sources,
   result |-> reduce(sources, target),
   sameObject |-> TRUE,
   targetAfter |-> reduce(sources, target),
   sourcesAfter |-> sources]

MCommit(m) ==
  /\ mergeCall' = m
  /\ UNCHANGED <<config, currentState, fetchCurrentState, listeners,
                 nextListener, unsubscribeStore, hydrateImpl, hydratePromise,
                 storage, timeoutId, backend, inflight, obs, gateVars,
                 adapter, frames>>

\* a caller has built the arguments
InitMerge ==
  /\ PersistIdle
  /\ GateIdle
  /\ AdapterIdle
  /\ mergeCall \in {NoMerge(target, sources) :
                      target \in MergeObjects, sources \in MergeSources}
  /\ FramesIdle

\* and calls deepMerge(target, ...sources)
DeepMerge ==
  /\ ~mergeCall.made
  /\ MCommit(deepMerge(mergeCall.target, mergeCall.sources))

NextMerge == DeepMerge

SpecMerge == InitMerge /\ [][NextMerge]_vars

\* ------------------------------------ synchronous hydration, step by step
\* a synchronous handler, and a listener the application subscribed to the
\* container before the first get()
ReentrantConfigs == {c \in Configs : ~c.async /\ ~c.skipHydrate}

RCommit(s, f) ==
  /\ currentState' = s.currentState
  /\ fetchCurrentState' = s.fetchCurrentState
  /\ listeners' = s.listeners
  /\ nextListener' = s.nextListener
  /\ unsubscribeStore' = s.unsubscribeStore
  /\ hydrateImpl' = s.hydrateImpl
  /\ hydratePromise' = s.hydratePromise
  /\ storage' = s.storage
  /\ timeoutId' = s.timeoutId
  /\ backend' = s.backend
  /\ inflight' = s.inflight
  /\ obs' = s.obs
  /\ frames' = f
  /\ UNCHANGED <<config, gateVars, adapter, mergeCall>>

\* hydrate() from its entry to the assignment in store.set(storedValue):
\* initializeStorage, getItem (one backend read), processStoredData, and
\* this.currentState = storedValue; the listeners are about to be called
hydrateUntilSet(s) ==
  LET s1 == initializeStorage(s)
      s2 == [s1 EXCEPT !.obs.reads = @ + 1, !.obs.readFrom = s.obs.writtenS,
                       !.obs.writtenS = NoSource]
      s3 == Processed(s2, parseJSON(s.backend), "sync")
  IN hydrateSet(s3, s3.obs.last.getItemResult)

\* hydrate() after store.set has returned: this.hydrate = () => undefined,
\* subscribeStore(), return; then initializeValue replaces fetchCurrentState
hydrateAfterSet(s) ==
  LET s1 == subscribeStore([s EXCEPT !.hydrateImpl = "undefined"])
  IN [s1 EXCEPT !.obs.last.ret = "undefined", !.fetchCurrentState = "plain"]

InitReentrant ==
  /\ config \in ReentrantConfigs
  /\ \E raw \in InitialRaws :
       /\ currentState = InitialState
       /\ fetchCurrentState = "initializeValue"
       /\ listeners = {}
       /\ nextListener = 1
       /\ unsubscribeStore = 0
       /\ hydrateImpl = "original"
       /\ hydratePromise = "none"
       /\ storage = "sentinel"
       /\ timeoutId = NoTimer
       /\ backend = raw
       /\ inflight = NoRead
       /\ obs = NoObs(FALSE, NoSource)
  /\ GateIdle
  /\ AdapterIdle
  /\ MergeIdle
  /\ frames \in {NoFrames(l) : l \in ListenerKinds}

\* the application calls store.get() for the first time: fetchCurrentState is
\* initializeValue, which calls persist.hydrate()
FirstGet ==
  /\ frames.pc = "idle"
  /\ RCommit(hydrateUntilSet(Begin), [frames EXCEPT !.depth = 1, !.pc = "notify"])

\* store.set calls the application's listener. One that calls get() or
\* set(fn) reaches this.fetchCurrentState(), still initializeValue, and
\* through it persist.hydrate(), still the original: a nested hydration
ListenerRuns ==
  /\ frames.pc = "notify"
  /\ IF \/ frames.listener = "passive"
        \/ frames.listener = "getOnce" /\ frames.ran
        \/ fetchCurrentState = "plain"
     THEN RCommit(Begin, [frames EXCEPT !.pc = "unwind", !.ran = TRUE])
     ELSE IF frames.depth < MaxStack
     THEN RCommit(hydrateUntilSet(Begin),
                  [frames EXCEPT !.depth = @ + 1, !.ran = TRUE])
     ELSE RCommit(Begin, [frames EXCEPT !.pc = "overflow"])

\* the innermost hydrate() finishes and returns to its caller: the listener
\* of the frame below, or the application. The forEach of the frame below is
\* still running over the Set, and visits the listener the handler has just
\* added: a setItem request
HydrateReturns ==
  /\ frames.pc = "unwind"
  /\ RCommit(LET s1 == hydrateAfterSet(Begin)
             IN IF frames.depth > 1 THEN setItem(s1, s1.currentState) ELSE s1,
             [frames EXCEPT !.depth = @ - 1,
                            !.pc = IF frames.depth = 1 THEN "returned" ELSE "unwind"])

\* RangeError: the exception leaves every frame; no hydrate() reaches the
\* statements after its store.set
StackOverflows ==
  /\ frames.pc = "overflow"
  /\ RCommit([Begin EXCEPT !.obs.last.threw = TRUE],
             [frames EXCEPT !.depth = 0, !.pc = "threw"])

NextReentrant ==
  \/ FirstGet
  \/ ListenerRuns
  \/ HydrateReturns
  \/ StackOverflows

SpecReentrant == InitReentrant /\ [][NextReentrant]_vars

\* ------------------------------------------------------------------ claims
\* the record hydration processed in the last action, as the code destructures it
ReadValue == RecordValue(obs.last.data)
ReadVersion == RecordVersion(obs.last.data)
\* hydration processed a read that did not fail, in the last action
Hydrated == obs.last.hyd /\ obs.outcome \in {"sync", "resolved"}
\* the record written for container state st
RecordOf(st) == [value |-> partialFn(config, st), version |-> config.version]
\* a value after JSON.stringify and JSON.parse
JSONRoundTrip(v) == IF JSONValue(v) = Missing THEN Undefined ELSE JSONValue(v)

\* C1: a burst of write requests, each less than debounceTime after the one
\* before, makes exactly one backend setItem call: none while the burst lasts,
\* one once debounceTime has passed since the last request, and that call
\* carries the last request's data.
C1_BurstOneWrite ==
  /\ obs.burstWrites <= 1
  /\ (timeoutId.on => timeoutId.data = obs.reqData)
  /\ (obs.last.wrote =>
        /\ obs.sinceReq >= config.debounceTime
        /\ obs.last.writeArg = RecordOf(obs.reqData)
        /\ backend = JSONstringify(RecordOf(obs.reqData)))
  /\ (obs.hasReq /\ obs.sinceReq < config.debounceTime /\ obs.burstMany =>
        obs.burstWrites = 0)
  /\ (obs.hasReq /\ obs.sinceReq > config.debounceTime => obs.burstWrites = 1)

\* a burst of two requests or more has just been written
C1_Witness ==
  /\ obs.last.wrote /\ obs.burstMany /\ obs.burstWrites = 1
  /\ obs.reqData # InitialState

C3_RoundTripExact ==
  Hydrated /\ obs.last.readFrom.has /\ obs.last.pre = InitialState =>
    obs.last.hydVal =
      mergeFunction(config, InitialState, partialFn(config, obs.last.readFrom.s))

\* C3, amended: it sets the container to merge(initialState, J(partial(S)))
\* with J the JSON round trip, which drops the properties whose value is
\* undefined.
C3_RoundTripJSON ==
  Hydrated /\ obs.last.readFrom.has /\ obs.last.pre = InitialState =>
    obs.last.hydVal =
      mergeFunction(config, InitialState,
                    JSONRoundTrip(partialFn(config, obs.last.readFrom.s)))

\* a reloaded handler on an asynchronous backend hydrated a projected record
C3_Witness ==
  /\ Hydrated /\ obs.reloaded /\ obs.last.readFrom.has
  /\ obs.last.pre = InitialState /\ obs.last.hydVal # InitialState
  /\ config.async /\ config.partial = "dropB"

C5_MigrateIff ==
  Hydrated =>
    LET should == /\ ~obs.last.data.null
                  /\ config.migrate
                  /\ ReadVersion # config.version
    IN /\ Len(obs.last.mig) = IF should THEN 1 ELSE 0
       /\ should =>
            /\ obs.last.mig[1] = [value |-> ReadValue, version |-> ReadVersion]
            /\ obs.last.hydVal =
                 mergeFunction(config, obs.last.pre, migrateFn(ReadValue, ReadVersion))

\* a record without version was migrated under a numbered configuration
C5_Witness ==
  /\ Hydrated /\ Len(obs.last.mig) = 1
  /\ obs.last.data.version = Absent /\ config.version # Undef

C7_MismatchIgnoresStored ==
  Hydrated /\ ~obs.last.data.null /\ ~config.migrate
    /\ ReadVersion # config.version =>
      obs.last.getItemResult = obs.last.pre

\* C8: on a synchronous backend, once the container has changed after
\* hydration and debounceTime has passed since the last change, the backend
\* holds the record {value: partial(state), version: config.version}.
C8_QuietBackend ==
  ~config.async /\ hydrateImpl = "undefined" /\ obs.hasReq
    /\ obs.sinceReq > config.debounceTime =>
      backend = JSONstringify(RecordOf(currentState))

\* a projected record of a changed state is in the backend after the quiet time
C8_Witness ==
  /\ ~config.async /\ hydrateImpl = "undefined" /\ obs.hasReq
  /\ obs.sinceReq > config.debounceTime
  /\ config.partial = "dropB" /\ currentState.o["b"] # Absent
  /\ currentState # InitialState /\ config.version # Undef

\* C9: when the backend's asynchronous getItem rejects, the handler's getItem
\* resolves to null, the rejection is logged, and the promise hydrate()
\* returned fulfils: it never rejects.
C9_RejectSwallowed ==
  /\ hydratePromise # "rejected"
  /\ obs.last.getItem # "rejected"
  /\ (obs.outcome = "rejected" =>
        /\ hydratePromise = "fulfilled"
        /\ obs.errors = 1
        /\ (obs.last.getItem = "fulfilled" => obs.last.getItemResult = Null))

\* the read has just been rejected
C9_Witness ==
  obs.outcome = "rejected" /\ obs.last.getItem = "fulfilled" /\ config.async

\* C10 as claimed: after the asynchronous read rejects, the container's state
\* is what it was before the read settled.
C10_RejectKeepsState ==
  obs.outcome = "rejected" /\ obs.last.hyd => currentState = obs.last.pre

\* C11 as claimed: a failure of the scheduled write reached through the JSON
\* storage adapter (the value does not serialize, the backend's setItem throws
\* or rejects) is caught and logged by the handler and the write is dropped:
\* no rejection is left unhandled and no retry is scheduled.
C11_WriteFailureLogged ==
  obs.last.wrote /\ obs.last.fault # "none" =>
    /\ obs.last.logged
    /\ ~obs.last.unhandled
    /\ ~timeoutId.on

\* the stores whose hydrate() returns a promise
AsyncStores == {s \in Stores : stores[s].persist /\ stores[s].hydrateImpl = "promise"}
\* the stores whose hydration promise has not resolved
Unresolved == {s \in AsyncStores : stores[s].promise # "fulfilled"}
\* the gate made its attempt over the store list and got a promise
GateOverAsyncStores ==
  gate.props.handler = "none" /\ gate.join > 0 /\ AsyncStores # {}

\* C12: a coordinator invocation returns undefined when every handler's
\* hydrate() result is synchronous, and otherwise one promise, which is
\* resolved only when every hydration promise has resolved.
C12_CoordinatorJoin ==
  \A i \in 1..Len(joins) :
    /\ joins[i].ret = "undefined" <=> AsyncStores = {}
    /\ joins[i].ret = "promise" => joins[i].st \in {"pending", "fulfilled"}
    /\ joins[i].st = "fulfilled" => Unresolved = {}

\* the promise of an invocation over two asynchronous stores has resolved
C12_Witness ==
  \E i \in 1..Len(joins) :
    joins[i].st = "fulfilled" /\ Cardinality(AsyncStores) >= 2

\* C13: a coordinator invocation with a fallback storage sets config.storage
\* of a handler to the fallback exactly when it was unset; a storage the
\* handler was configured with, or was given by an earlier invocation, is
\* never replaced.
C13_FallbackOnlyIfUnset ==
  /\ [](\A s \in Stores :
          stores[s].own # "unset" => stores[s].storage = stores[s].own)
  /\ [][\A s \in Stores :
          /\ stores[s].storage # "unset" =>
               stores'[s].storage = stores[s].storage
          /\ stores'[s].storage # stores[s].storage =>
               /\ Len(joins') = Len(joins) + 1
               /\ stores[s].persist
               /\ stores'[s].storage = gate'.lastFallback
          /\ Len(joins') = Len(joins) + 1 /\ stores[s].persist
               /\ stores[s].storage = "unset" /\ gate'.lastFallback # "unset" =>
               stores'[s].storage = gate'.lastFallback]_vars

\* after two invocations one handler keeps its own storage and another the
\* fallback of the first invocation, not that of the second
C13_Witness ==
  /\ Len(joins) >= 2
  /\ \E s1, s2 \in Stores :
       /\ stores[s1].own = "ownSync" /\ stores[s1].storage = "ownSync"
       /\ stores[s2].own = "unset" /\ stores[s2].storage = "fbAsync"
  /\ gate.lastFallback = "fbSync"

\* C14: a gate issues one hydration attempt over its lifetime (one call of
\* the custom handler or one coordinator invocation), however often it
\* renders or is subscribed to, and also when the attempt returned undefined.
C14_OneAttempt ==
  /\ gate.attempts <= 1
  /\ gate.rendered # "none" => gate.attempts = 1
  /\ gate.attempts = 1 <=> gate.promiseRef # "undefined"
  /\ gate.props.handler = "none" => (gate.join > 0 <=> gate.attempts = 1)
  /\ gate.props.handler # "none" => gate.join = 0

\* a gate whose attempt returned undefined has been rendered again after a
\* store change and subscribed to more than once
C14_Witness ==
  /\ gate.attempts = 1 /\ gate.promiseRef = "null"
  /\ gate.props.handler = "undefined"
  /\ gate.subscribes = MaxSubscribes /\ gate.storeChanged
  /\ gate.rendered = "children"

\* C15: a gate whose hydration result is not a promise (a handler returning
\* no promise, or a store list none of whose stores hydrates asynchronously)
\* is open from its first evaluation and never shows the placeholder.
C15_SyncGateOpen ==
  gate.attempts >= 1 /\
    (\/ gate.props.handler = "undefined"
     \/ gate.props.handler = "none" /\ AsyncStores = {}) =>
      /\ gate.isHydrated
      /\ gate.rendered # "loading"
      /\ gate.thens = 0

\* a gate over a list with a synchronous handler shows its children
C15_Witness ==
  /\ gate.props.handler = "none" /\ AsyncStores = {}
  /\ \E s \in Stores : stores[s].persist /\ stores[s].hydrateImpl = "undefined"
  /\ gate.rendered = "children" /\ gate.subscribes >= 1

\* C16: a gate over a list with an asynchronous store shows the placeholder
\* while some store's hydration has not resolved, shows its children once
\* all have resolved, and isHydrated, once true, stays true.
C16_AsyncGate ==
  /\ [](GateOverAsyncStores /\ Unresolved # {} =>
          ~gate.isHydrated /\ gate.rendered = "loading")
  /\ [][gate.isHydrated => gate'.isHydrated]_vars
  /\ [][gate.rendered = "children" => gate'.rendered = "children"]_vars
  /\ (GateOverAsyncStores /\ Unresolved = {} ~> gate.rendered = "children")

\* the gate over two asynchronous stores is open, after both subscribes and a
\* store change
C16_Witness ==
  /\ GateOverAsyncStores /\ Cardinality(AsyncStores) >= 2
  /\ gate.rendered = "children" /\ gate.subscribes = MaxSubscribes
  /\ gate.thens = 0 /\ gate.storeChanged

\* C17 as claimed: a gate whose hydration result is a promise opens once the
\* promise has settled, fulfilled or rejected.
C17_OpensWhenSettled ==
  gate.promiseRef = "promise" /\ gate.rendered # "none"
    /\ gatePromise(GCur) \in {"fulfilled", "rejected"}
      ~> gate.rendered = "children"

\* C18: the adapter's getItem returns a value at once on a synchronous
\* backend and a promise on an asynchronous one, and for every raw content
\* (null, JSON, text that is no JSON) the promise resolves to the value the
\* synchronous call returns for that content.
C18_GetItemSameValue ==
  adapter.get.made =>
    /\ adapter.get.kind = "promise" <=> adapter.async
    /\ ~adapter.async => adapter.get.kind = "value"
    /\ adapter.get.st = "fulfilled" =>
         adapter.get.data = adapterGetItem(FALSE, adapter.get.raw).data

\* the promise of a read of text that is no JSON has resolved
C18_Witness ==
  /\ adapter.async /\ adapter.get.st = "fulfilled"
  /\ adapter.get.raw = BadRaw /\ adapter.get.data = NullData

\* C19: the adapter's getItem never throws on stored content: text that is
\* no JSON gives null, and so does null.
C19_GetItemNeverThrows ==
  adapter.get.made =>
    /\ adapter.get.kind # "thrown"
    /\ adapter.get.st = "rejected" => ~adapter.get.ok
    /\ adapter.get.raw \in {NoRaw, BadRaw} /\ adapter.get.st # "pending" =>
         adapter.get.data = NullData

\* a synchronous read of text that is no JSON has returned null
C19_Witness ==
  /\ ~adapter.async /\ adapter.get.kind = "value"
  /\ adapter.get.raw = BadRaw /\ adapter.get.data = NullData

\* C20: a serialization error in the adapter's setItem is not swallowed: the
\* promise the call returns is rejected, and the backend's setItem is not
\* called, so the backend keeps what it held.
C20_SerializeErrorRejects ==
  adapter.set.made /\ adapter.set.fault = "circular" =>
    /\ adapter.set.promise = "rejected"
    /\ ~adapter.set.called
    /\ adapter.backend = adapter.set.before

\* a setItem of a circular value over a backend that holds a record
C20_Witness ==
  /\ adapter.set.made /\ adapter.set.fault = "circular"
  /\ adapter.set.promise = "rejected" /\ adapter.backend.t = "json"

\* C21 as claimed: the adapter's removeItem keeps the shape of the backend:
\* no promise on a backend whose removeItem returns synchronously, a promise
\* on one that returns a promise.
C21_RemoveItemKeepsShape ==
  adapter.remove.made =>
    (adapter.remove.kind = "promise" <=> adapter.async)


\* C22: when resolving the storage provider throws, the handler works against
\* the uninitialized sentinel: hydrate() completes synchronously, the state is
\* what it was before, calls are answered by the sentinel, and no backend
\* is ever read or written.
C22_ProviderThrowsNeverReaches ==
  [][config.setup = "providerThrows" =>
       /\ backend' = backend
       /\ storage' = "sentinel"
       /\ obs'.reads = 0
       /\ hydratePromise' = "none"
       /\ ~obs'.last.threw
       /\ ~obs'.last.wrote
       /\ obs'.last.hyd =>
            /\ obs'.last.ret = "undefined"
            /\ obs'.last.warned
            /\ obs'.last.data = NullData
            /\ obs'.last.hydVal = obs'.last.pre]_vars

C22_Witness ==
  /\ config.setup = "providerThrows"
  /\ hydrateImpl = "undefined"
  /\ currentState # InitialState
  /\ obs.hasReq
  /\ ~timeoutId.on
  /\ obs.last.warned

\* C23: with skipHydrate set, get() and set() never start hydration: while
\* hydrate has not run, only an explicit hydrate() step makes it run; after
\* any other step there is still no backend read, no hydration set, no
\* subscription of the handler and an untouched backend.
C23_SkipHydrateWaitsForExplicit ==
  [][config.skipHydrate /\ hydrateImpl = "original" =>
       \/ Hydrate
       \/ /\ hydrateImpl' = "original"
          /\ obs'.reads = 0
          /\ obs'.hydSets = 0
          /\ listeners' = {}
          /\ ~timeoutId'.on
          /\ backend' = backend]_vars

C23_Witness ==
  /\ config.skipHydrate
  /\ hydrateImpl = "original"
  /\ fetchCurrentState = "plain"
  /\ currentState # InitialState
  /\ obs.reads = 0

\* C24: on an asynchronous backend a change made while hydration's read is
\* still pending schedules the debounced write of the new state, and when
\* the backend was empty at the read, once that debounce has run out the
\* backend holds the record of the changed state.
C24_ChangeWhilePendingIsWritten ==
  [][config.async /\ inflight.st = "pending" /\ inflight'.st = "pending" =>
       /\ currentState' # currentState =>
            timeoutId' = [on |-> TRUE, data |-> currentState',
                          left |-> config.debounceTime]
       /\ inflight'.raw = NoRaw /\ obs'.hasReq /\ ~timeoutId'.on =>
            backend' = JSONstringify(RecordOf(currentState'))]_vars

C24_Witness ==
  /\ config.async
  /\ inflight.st = "pending"
  /\ inflight.raw = NoRaw
  /\ obs.hasReq
  /\ ~timeoutId.on
  /\ currentState # InitialState
  /\ backend = JSONstringify(RecordOf(currentState))

\* C25: a container asked to persist but given no name logs one error and
\* has no handler: hydration never runs, nothing subscribes, no timer is
\* armed, no backend is read or written, while get and set work on the
\* in-memory state.
C25_NoNameIsPlainState ==
  [][config.setup = "noName" =>
       /\ obs'.errors = 1
       /\ hydrateImpl' = "original"
       /\ storage' = "sentinel"
       /\ obs'.reads = 0
       /\ obs'.hydSets = 0
       /\ listeners' = {}
       /\ ~timeoutId'.on
       /\ ~obs'.last.threw
       /\ backend' = backend]_vars

C25_Witness ==
  /\ config.setup = "noName"
  /\ obs.errors = 1
  /\ fetchCurrentState = "plain"
  /\ currentState # InitialState
  /\ backend # NoRaw

\* C26: deepMerge returns a new object and leaves its arguments as they
\* were: after a call the target and every source hold what they held before.
C26_DeepMergeLeavesArguments ==
  mergeCall.made =>
    /\ ~mergeCall.sameObject
    /\ mergeCall.targetAfter = mergeCall.target
    /\ mergeCall.sourcesAfter = mergeCall.sources

\* C27: within one handler no write is requested, pending or made before
\* hydration's read of the backend has been issued: a step that changes the
\* backend, arms the timer or subscribes the handler comes with a backend
\* read already counted.
C27_ReadIssuedBeforeFirstWrite ==
  [][(backend' # backend \/ timeoutId'.on \/ obs'.hasReq \/ obs'.last.wrote
        \/ listeners' # {})
       => obs'.reads >= 1 /\ hydrateImpl' # "original"]_vars

C27_Witness ==
  /\ config.skipHydrate
  /\ obs.reads = 1
  /\ obs.last.wrote
  /\ backend = JSONstringify(RecordOf(currentState))
  /\ currentState # InitialState

\* C28: on either path the handler subscribes only after hydration's own
\* set, so the set hydration makes into the container never reaches the
\* handler's listener and requests no debounced write.
C28_HydrationSetSchedulesNothing ==
  obs.last.hyd => ~obs.last.hydReq

\* C29: after an asynchronous read was rejected the backend never comes to
\* hold a record written from hydration's own set, a record whose value
\* is null.
C29_RejectedReadWritesNothing ==
  obs.outcome = "rejected" =>
    ~(backend.t = "json" /\ backend.value = Null)

\* C30: over a synchronous backend whose getItem throws, hydrate() and get()
\* return normally, and the failed read is made once, not again at every
\* later get().
C30_ThrowingGetItemIsNotFatal ==
  config.setup = "getItemThrows" =>
    /\ ~obs.last.threw
    /\ obs.reads <= 1

\* C31: a handler configured with no storage that a coordinator with a
\* fallback has hydrated reads and writes through that fallback, whatever
\* happened to the container before the coordinator ran.
C31_FallbackStorageIsUsed ==
  \A s \in Stores :
    (/\ stores[s].persist /\ stores[s].own = "unset"
     /\ stores[s].storage \in Fallbacks \ {"unset"})
      => stores[s].uses = stores[s].storage

\* C32: a coordinator invocation has issued hydrate() on every persisted
\* store of the list when it returns, before any read has settled, and a
\* read that does not settle delays the join only: the join of an invocation
\* stays pending as long as one of the hydrations it waits for is, while
\* the other stores of the list are hydrated already or complete on their own.
C32_AllIssuedBeforeAnyAwaited ==
  /\ [][Len(joins') > Len(joins) =>
          \A s \in Stores :
            stores'[s].persist =>
              stores'[s].hydrateImpl # "original" /\ stores'[s].uses # "none"]_vars
  /\ [](\A i \in 1..Len(joins) :
          (\E s \in joins[i].waits : stores[s].promise = "pending")
            => joins[i].st = "pending")

C32_Witness ==
  \E i \in 1..Len(joins) : \E s, r \in joins[i].waits :
    /\ s # r
    /\ stores[s].promise = "fulfilled"
    /\ stores[r].promise = "pending"
    /\ joins[i].st = "pending"

\* C33: when every backend read eventually settles, by fulfilling or by
\* rejecting, a rendered gate over a list with asynchronous stores
\* eventually shows its children; and as long as a read its join waits for
\* has not settled it does not: nothing else opens it.
C33_GateOpensIffReadsSettle ==
  /\ (GateOverAsyncStores /\ gate.rendered # "none" ~> gate.rendered = "children")
  /\ [][(GateOverAsyncStores' /\
           \E s \in joins'[gate'.join].waits : stores'[s].read = "pending")
          => gate'.rendered # "children" /\ ~gate'.isHydrated]_vars

C33_Witness ==
  /\ GateOverAsyncStores
  /\ gate.rendered = "children"
  /\ \E s \in joins[gate.join].waits : stores[s].read = "rejected"

\* C34: when an asynchronous read resolves, the stored value is merged
\* into the state the container has at that moment, the user's sets made
\* while the read was pending included: the new state is the merge of that
\* state with the processed stored value, whose keys override it.
C34_MergeAgainstStateAtResolve ==
  [][inflight.st = "pending" /\ obs'.last.hyd /\ obs'.outcome = "resolved" =>
       /\ obs'.last.pre = currentState
       /\ currentState' =
            processStoredData(config, currentState, obs'.last.data).out
       /\ (~obs'.last.data.null /\ obs'.last.mig = <<>>
             /\ isObject(RecordValue(obs'.last.data))) =>
            \A key \in Keys :
              currentState'.o[key] =
                IF RecordValue(obs'.last.data).o[key] # Absent
                THEN RecordValue(obs'.last.data).o[key]
                ELSE currentState.o[key]]_vars

C34_Witness ==
  /\ obs.last.hyd /\ obs.outcome = "resolved"
  /\ ~obs.last.data.null /\ obs.last.mig = <<>>
  /\ obs.last.pre # InitialState
  /\ ReadValue.o["a"] # obs.last.pre.o["a"]
  /\ currentState.o["a"] = ReadValue.o["a"]
  /\ ReadValue.o["b"] = Absent
  /\ currentState.o["b"] = obs.last.pre.o["b"]
  /\ currentState.o["b"] # InitialState.o["b"]

\* C35: on a synchronous backend hydration by itself writes nothing: its
\* set reaches no listener of the handler, a step that hydrates leaves the
\* backend as it was, a migrated record included, and until a container
\* change has requested a write the backend does not change and no timer
\* is armed.
C35_SyncHydrationWritesNothing ==
  [][~config.async =>
       /\ obs'.last.hyd => ~obs'.last.hydReq /\ backend' = backend
       /\ ~obs'.hasReq => backend' = backend /\ ~timeoutId'.on]_vars

C35_Witness ==
  /\ ~config.async
  /\ obs.last.hyd /\ obs.last.mig # <<>>
  /\ ~obs.hasReq /\ ~timeoutId.on
  /\ backend.t = "json" /\ backend.version # config.version
  /\ currentState # InitialState

\* C36: the first get() on a synchronous persisted container returns after
\* one backend read, whatever a listener subscribed before it does when it
\* is notified of hydration's set: the call never runs out of stack, never
\* throws, and no second read is made.
C36_FirstGetReturnsAfterOneRead ==
  /\ obs.reads <= 1
  /\ frames.depth <= 1
  /\ frames.pc \notin {"overflow", "threw"}

\* C37: set(value) on a container that was never read starts no hydration
\* and requests no write; and the hydration that runs later sets every key
\* the stored record holds to the stored value, the earlier update of that
\* key being lost without having been written.
C37_EarlySetIsOverwritten ==
  /\ [][SetValue /\ hydrateImpl = "original" =>
          /\ hydrateImpl' = "original"
          /\ fetchCurrentState' = fetchCurrentState
          /\ obs'.reads = 0
          /\ ~obs'.hasReq /\ ~timeoutId'.on
          /\ backend' = backend]_vars
  /\ [][(/\ hydrateImpl = "original" /\ obs'.last.hyd
          /\ obs'.outcome = "sync" /\ ~obs'.last.data.null
          /\ obs'.last.mig = <<>> /\ isObject(RecordValue(obs'.last.data))) =>
          /\ obs'.last.pre = currentState
          /\ backend' = backend
          /\ \A key \in Keys :
               RecordValue(obs'.last.data).o[key] # Absent =>
                 obs'.last.hydVal.o[key] = RecordValue(obs'.last.data).o[key]]_vars

C37_Witness ==
  /\ ~config.async
  /\ obs.last.hyd /\ ~obs.last.data.null /\ obs.last.mig = <<>>
  /\ obs.last.pre.o["b"] # InitialState.o["b"]
  /\ ReadValue.o["b"] # Absent
  /\ ReadValue.o["b"] # obs.last.pre.o["b"]
  /\ currentState.o["b"] = ReadValue.o["b"]
  /\ ~obs.hasReq
  /\ backend.t = "json" /\ backend.value.o["b"] = ReadValue.o["b"]

\* C38: a handler has at most one listener on its container, the one its
\* unsubscribe function removes: subscribing again first removes the
\* listener of the subscription before.
C38_OneListenerPerHandler ==
  /\ Cardinality(listeners) <= 1
  /\ listeners # {} => listeners = {unsubscribeStore}

\* the handler has subscribed twice: a hydration nested in the first one
\* returned and subscribed, then the first one did
C38_Witness ==
  /\ frames.pc = "returned"
  /\ nextListener = 3
  /\ listeners = {2}

\* C39: a handler has at most one debounced write pending: a new request
\* clears the pending timer before it sets its own, so the one pending is
\* the last request's, with the data of that request.
C39_OnePendingWrite ==
  /\ obs.pending <= 1
  /\ timeoutId.on <=> obs.pending = 1
  /\ timeoutId.on => timeoutId.data = obs.reqData

\* a second request has just replaced one that was still pending
C39_Witness ==
  /\ obs.burstMany /\ obs.sinceReq = 0
  /\ obs.pending = 1
  /\ timeoutId.on /\ timeoutId.left = config.debounceTime
  /\ timeoutId.data = currentState
  /\ obs.burstWrites = 0
====
